---------------------------- MODULE Spec2Model ----------------------------
(***************************************************************************)
(* The "Save Submission" action of src/src/actions/SaveSubmission.js.      *)
(*                                                                         *)
(* A save request on a form runs resolve(); with settings.resource set it  *)
(* loads the target resource, builds (POST/PATCH) or loads (PUT) the child *)
(* submission, merges the configured fields into it, optionally runs the   *)
(* transform script in the sandbox, dispatches the child save to the       *)
(* resource handler and finally links the child back into the primary.     *)
(*                                                                         *)
(* JavaScript objects are kept in a heap so that the references lodash's   *)
(* _.set / _.get hand around stay references.  The handler of the target   *)
(* resource runs that form's own Save Submission action on the child       *)
(* request: nested invocations of resolve() are frames of a stack.         *)
(***************************************************************************)
EXTENDS Integers, Sequences, FiniteSets, TLC

(***************************************************************************)
(* Values held by object properties, and the heap of objects.              *)
(***************************************************************************)
Leaf(s)   == [t |-> "leaf",  v |-> s,  a |-> 0]
Obj(n)    == [t |-> "obj",   v |-> "", a |-> n]
ItemV(id) == [t |-> "item",  v |-> id, a |-> 0]
SubV(l)   == [t |-> "sub",   v |-> "", a |-> l]
Undef     == [t |-> "undef", v |-> "", a |-> 0]

\* Values by structure (no references): what a deep copy or a comparison sees.
TLeaf(s) == [t |-> "leaf", v |-> s,  a |-> 0, m |-> << >>]
TMap(f)  == [t |-> "map",  v |-> "", a |-> 0, m |-> f]
TCut     == [t |-> "cut",  v |-> "", a |-> 0, m |-> << >>]

EmptyObject == << >>

Put(o, k, val) == [x \in (DOMAIN o) \cup {k} |-> IF x = k THEN val ELSE o[x]]

\* The order in which the keys of a literal are laid out on the heap.
KeySeq == <<"a", "b", "data">>

RECURSIVE Alloc(_, _), AllocKeys(_, _, _, _)
\* A fresh copy of the tree tr on the heap h: [h |-> new heap, v |-> its value].
Alloc(h, tr) ==
  IF tr.t # "map" THEN [h |-> h, v |-> [t |-> tr.t, v |-> tr.v, a |-> tr.a]]
  ELSE LET n == Len(h) + 1
       IN  [h |-> AllocKeys(Append(h, EmptyObject), n, tr.m, 1), v |-> Obj(n)]
AllocKeys(h, n, f, i) ==
  IF i > Len(KeySeq) THEN h
  ELSE LET k == KeySeq[i]
       IN  IF k \notin DOMAIN f THEN AllocKeys(h, n, f, i + 1)
           ELSE LET r == Alloc(h, f[k])
                IN  AllocKeys([r.h EXCEPT ![n] = Put(@, k, r.v)], n, f, i + 1)

RECURSIVE DerefN(_, _, _)
DerefN(h, val, fuel) ==
  IF val.t # "obj" THEN [t |-> val.t, v |-> val.v, a |-> val.a, m |-> << >>]
  ELSE IF fuel = 0 THEN TCut
  ELSE TMap([k \in DOMAIN h[val.a] |-> DerefN(h, h[val.a][k], fuel - 1)])

\* The structure reachable from val.  _.set can tie a knot (a.b = a); the
\* structure is followed MaxTreeDepth objects deep and cut off below.
MaxTreeDepth == 6
Deref(h, val) == DerefN(h, val, MaxTreeDepth)

(***************************************************************************)
(* lodash: _.has, _.get, _.set over parsed paths.                          *)
(***************************************************************************)
\* castPath: a dotted property name is split into its segments.
PathOf(s) ==
  CASE s = "a.b"    -> <<"a", "b">>
    [] s = "data.b" -> <<"data", "b">>
    [] OTHER        -> <<s>>

RECURSIVE Has(_, _, _)
Has(h, val, p) ==
  IF p = << >> THEN TRUE
  ELSE /\ val.t = "obj"
       /\ p[1] \in DOMAIN h[val.a]
       /\ Has(h, h[val.a][p[1]], Tail(p))

RECURSIVE Get(_, _, _)
Get(h, val, p) ==
  IF p = << >> THEN val
  ELSE IF val.t = "obj" /\ p[1] \in DOMAIN h[val.a]
       THEN Get(h, h[val.a][p[1]], Tail(p))
       ELSE Undef

RECURSIVE Set(_, _, _, _)
\* _.set(object at n, path p, val): intermediate properties that hold no object
\* are replaced by fresh empty objects; existing objects are written in place.
Set(h, n, p, val) ==
  IF Len(p) = 1 THEN [h EXCEPT ![n] = Put(@, p[1], val)]
  ELSE LET cur == IF p[1] \in DOMAIN h[n] THEN h[n][p[1]] ELSE Undef
       IN  IF cur.t = "obj" THEN Set(h, cur.a, Tail(p), val)
           ELSE LET fresh == Len(h) + 1
                    h2 == Append([h EXCEPT ![n] = Put(@, p[1], Obj(fresh))],
                                 EmptyObject)
                IN  Set(h2, fresh, Tail(p), val)


(***************************************************************************)
(* Bounds and the inputs drawn from them.                                  *)
(***************************************************************************)
MaxFields     == 2    \* entries of settings.fields
MaxDepthBound == 2    \* largest recursion bound of util.createSubRequest tried
MaxExternalIds == 2   \* records of a stored submission's externalIds
MaxRequests   == 2    \* update requests run one after the other

Methods == {"GET", "POST", "PUT", "PATCH"}

\* Forms: "A" is the form the primary request is made on, "B" its target.
FormOf(level) == IF level % 2 = 1 THEN "A" ELSE "B"

PrimaryTrees ==
  { TMap([a |-> TLeaf("x")]),
    TMap([a |-> TMap([b |-> TLeaf("x")]), b |-> TLeaf("y")]) }

\* The data of a child submission already stored in the target resource.
ChildTrees == { TMap(EmptyObject), TMap([data |-> TLeaf("y")]) }

TargetKeys   == {"data", "data.b", "b"}
SourceFields == {"data", "a.b"}
FieldPairs   == [key : TargetKeys, field : SourceFields]

RECURSIVE FieldSeqs(_)
\* settings.fields in iteration order: an object holds each key once.
FieldSeqs(n) ==
  IF n = 0 THEN {<< >>}
  ELSE FieldSeqs(n - 1) \cup
       { Append(s, p) : s \in { q \in FieldSeqs(n - 1) : Len(q) = n - 1 },
                        p \in FieldPairs } 

DistinctKeys(s) == \A i, j \in 1..Len(s) : s[i].key = s[j].key => i = j

FieldSettings == { s \in FieldSeqs(MaxFields) : DistinctKeys(s) }

\* Transform scripts: none, one that never touches data, one that assigns it.
Transforms == {"", "keep", "rewrite"}

IsPrefix(p, q) == Len(p) <= Len(q) /\ SubSeq(q, 1, Len(p)) = p

\* No target path of fs leads through another one.
DisjointTargets(fs) ==
  \A i, j \in 1..Len(fs) :
     i # j => ~IsPrefix(PathOf(fs[i].key), PathOf(fs[j].key))

\* Configurations in which the two forms save into each other are run with
\* these field settings and transforms only.
MutualFieldSettings ==
  { s \in FieldSettings :
      DisjointTargets(s) /\ (Len(s) = 0 \/ s[1].field = "data") }
MutualTransforms    == {"", "keep"}
Properties == {"", "a"}

Ids == {"c1", "c2"}
ExtRec(ty, r, id) == [type |-> ty, resource |-> r, id |-> id]
\* Records a stored submission of a form whose action saves into target may hold.
ExtRecs(target) ==
  { ExtRec("resource", target, "c1"), ExtRec("resource", target, "c2"),
    ExtRec("other", target, "c2"), ExtRec("resource", "X", "c2") }

RECURSIVE ExtSeqs(_, _)
ExtSeqs(n, target) ==
  IF n = 0 THEN {<< >>}
  ELSE ExtSeqs(n - 1, target) \cup
       { Append(s, r) : s \in { q \in ExtSeqs(n - 1, target) : Len(q) = n - 1 },
                        r \in ExtRecs(target) }

\* The id of the first record of ext that links to a submission of resource r.
LinkedId(ext, r) ==
  LET Match(i) == ext[i].type = "resource" /\ ext[i].resource = r
  IN  IF \E i \in 1..Len(ext) : Match(i)
      THEN ext[CHOOSE i \in 1..Len(ext) :
                 Match(i) /\ \A j \in 1..(i - 1) : ~Match(j)].id
      ELSE ""

BaseUrl == "/form/:formId/submission"
ByIdUrl == "/form/:formId/submission/:submissionId"

\* router.resourcejs: the (url, method) pairs that have a handler.
Registries ==
  { {},
    { <<BaseUrl, "post">>, <<ByIdUrl, "put">> },
    { <<BaseUrl, "post">>, <<ByIdUrl, "put">>, <<BaseUrl, "patch">> } }

\* What a failing cache.loadForm / cache.loadSubmission throws.
LoaderErrors == {"Error: not found"}
\* What a failing resource handler passes to its callback.
HandlerErrors == {"EHANDLER"}

(***************************************************************************)
(* State.                                                                  *)
(*   cfg    the request's method and flags, the action settings of the     *)
(*          forms, and the environment (handler registry, recursion bound) *)
(*   heap   the JavaScript objects                                         *)
(*   subm   subm[1] is the primary request's body; subm[l + 1] is the      *)
(*          cache.submission of frame l, which is also the body of the     *)
(*          child request handled by frame l + 1                           *)
(*   stack  one frame per running invocation of resolve(), innermost last  *)
(*   res    the response object shared by a request and its child requests *)
(*   reqNo  the number of the request being served                         *)
(*   inst   the installer of src/install.js (idle while requests are       *)
(*          served)                                                        *)
(***************************************************************************)
VARIABLES cfg, heap, subm, stack, res, reqNo, inst

vars == <<cfg, heap, subm, stack, res, reqNo, inst>>

NoSubmission ==
  [exists |-> FALSE, hasId |-> FALSE, id |-> "", hasForm |-> FALSE,
   hasExt |-> FALSE, ext |-> << >>, data |-> Undef]

Submission(hasId, id, hasForm, hasExt, ext, data) ==
  [exists |-> TRUE, hasId |-> hasId, id |-> id, hasForm |-> hasForm,
   hasExt |-> hasExt, ext |-> ext, data |-> data]

NoResource == [hasItem |-> FALSE, id |-> ""]

\* The fields of a request that util.createSubRequest's caller sets (lines 99-123).
NoChildReq ==
  [permissionsChecked |-> FALSE, noResponse |-> FALSE, formId |-> "",
   subId |-> "", url |-> "", method |-> "", data |-> TCut, sent |-> FALSE]

\* What the primary body looked like when resolve() was entered.
Snapshot(h, s) ==
  [exists |-> s.exists, data |-> Deref(h, s.data), hasExt |-> s.hasExt,
   ext |-> s.ext]

Frame(h, body, skipResource, req) ==
  [pc |-> "start",
   skipResource |-> skipResource,      \* req.skipResource: "unset", "true", "false"
   req |-> req,                        \* what the parent set on this request
   resource |-> "unset",               \* cache.resource: "unset", "null" or a form id
   hasSub |-> FALSE,                   \* cache.submission is set
   isTransformedData |-> FALSE,
   linked |-> "",                      \* history: id the stored primary links to
   external |-> "",                    \* external.id
   nextCalls |-> 0, nextErr |-> "",
   \* history: what this invocation did
   pre |-> Snapshot(h, body),
   nLoadForm |-> 0, nLoadSub |-> 0, loadFailed |-> "", missing |-> FALSE,
   nEval |-> 0, evalFailed |-> FALSE, merged |-> TCut,
   sent |-> NoChildReq, handled |-> "", savedId |-> "", assigned |-> FALSE]

Level == Len(stack)
top   == stack[Level]
body  == subm[Level]
SetTop(f) == [stack EXCEPT ![Level] = f]

(***************************************************************************)
(* The configuration is fixed for a request, but a part of it is drawn     *)
(* only when the code first reads it (cfg.read names the parts read so     *)
(* far) and is kept from then on: runs that differ in a setting nobody     *)
(* read are the same run.                                                  *)
(***************************************************************************)
Draw(k, S)    == IF k \in cfg.read THEN {cfg[k]} ELSE S
With(c, k, x) == [c EXCEPT ![k] = x, !.read = @ \cup {k}]

\* The name of settings.resource of the action on the form served at level l.
ResourceKey(l) == IF FormOf(l) = "A" THEN "resourceA" ELSE "resourceB"
Targets(l)     == IF FormOf(l) = "A" THEN {"", "B"} ELSE {"", "A"}

\* this.settings of the action on the form the frame at level l serves.
SettingsOf(c, l) ==
  [resource  |-> c[ResourceKey(l)],
   property  |-> c.property,
   fields    |-> c.fields,
   transform |-> c.transform]
settings == SettingsOf(cfg, Level)

\* next(err) of the frame f.
CallNext(f, err) ==
  [f EXCEPT !.pc = "done", !.nextCalls = @ + 1, !.nextErr = err]

PrimaryBodies(m) ==
  { [hasId |-> i, hasForm |-> fo, hasExt |-> e.has, ext |-> e.ext, tree |-> tr] :
      i \in (IF m = "PUT" THEN BOOLEAN ELSE {FALSE}),
      fo \in (IF m = "PUT" THEN BOOLEAN ELSE {FALSE}),
      e \in { [has |-> FALSE, ext |-> << >>], [has |-> TRUE, ext |-> << >>],
              [has |-> TRUE, ext |-> <<ExtRec("resource", "B", "c1")>>] },
      tr \in PrimaryTrees }

Unread ==
  [resourceA |-> "", resourceB |-> "", property |-> "", fields |-> << >>,
   transform |-> "", depthBound |-> 1, registry |-> {}, read |-> {}]

\* The method, the skipSave flag and whether the target form's action saves
\* back into the primary form are fixed from the start.
Config(m, sk, rb) ==
  [k \in DOMAIN Unread \cup {"method", "skipSave"} |->
     CASE k = "method"    -> m
       [] k = "skipSave"  -> sk
       [] k = "resourceB" -> rb
       [] k = "read"      -> {"resourceB"}
       [] OTHER           -> Unread[k]]

\* A request as resolve() finds it.
Request(b, hasBody) ==
  LET r == Alloc(<< >>, b.tree)
      s == IF hasBody
           THEN Submission(b.hasId, "p1", b.hasForm, b.hasExt, b.ext, r.v)
           ELSE NoSubmission
      h == IF hasBody THEN r.h ELSE << >>
  IN  [heap |-> h, subm |-> <<s>>,
       stack |-> <<Frame(h, s, "unset", NoChildReq)>>, res |-> NoResource]

\* The installer before module.exports of install.js is called.
NotInstalling ==
  [rootEmail |-> FALSE,
   items |-> [download |-> FALSE, extract |-> FALSE, import |-> FALSE,
              user |-> FALSE],
   cur |-> 0, pc |-> "idle", prompts |-> {}, calls |-> [i \in 1..6 |-> 0],
   started |-> << >>, tries |-> 0, doneCalls |-> 0, doneErr |-> FALSE,
   thrown |-> FALSE]

Init ==
  /\ reqNo = 1
  /\ inst = NotInstalling
  /\ \E m \in Methods, sk \in BOOLEAN, rb \in {"", "A"} : cfg = Config(m, sk, rb)
  /\ \E hasBody \in BOOLEAN, b \in PrimaryBodies(cfg.method) :
        /\ ~hasBody => b = CHOOSE x \in PrimaryBodies(cfg.method) : TRUE
        \* forms that save into each other are run for create requests
        /\ cfg.resourceB # "" =>
              ~cfg.skipSave /\ hasBody /\ cfg.method \in {"POST", "PATCH"}
        /\ heap = Request(b, hasBody).heap
        /\ subm = Request(b, hasBody).subm
        /\ stack = Request(b, hasBody).stack
        /\ res = Request(b, hasBody).res

\* Mutant: req.skipSave is not looked at.
GatedWithoutSkipSave ==
  ~subm[Len(stack)].exists \/ cfg.method \notin {"POST", "PUT", "PATCH"}

Gated == cfg.skipSave \/ ~body.exists \/ cfg.method \notin {"POST", "PUT", "PATCH"}

\* Mutant: req.skipResource = false (line 68) is left out.
resolveKeepingFlag ==
  /\ top.pc = "start"
  /\ IF Gated
     THEN /\ stack' = SetTop(CallNext(top, ""))
          /\ cfg' = cfg
     ELSE \E r \in Draw(ResourceKey(Level), Targets(Level)) :
            /\ cfg' = With(cfg, ResourceKey(Level), r)
            /\ stack' = SetTop(
                 IF r = ""
                 THEN CallNext(top, "")
                 ELSE [top EXCEPT !.skipResource = "true",
                                  !.pc = "loadResource"])
  /\ UNCHANGED <<heap, subm, res, reqNo, inst>>

(***************************************************************************)
(* resolve(): the gates (lines 61-73) and the start of the pipeline        *)
(* (lines 270-274).                                                        *)
(***************************************************************************)
resolve ==
  /\ top.pc = "start"
  /\ IF Gated
     THEN /\ stack' = SetTop(CallNext(top, ""))
          /\ cfg' = cfg
     ELSE \E r \in Draw(ResourceKey(Level), Targets(Level)) :
            /\ cfg' = With(cfg, ResourceKey(Level), r)
            /\ stack' = SetTop(
                 IF r = ""
                 THEN CallNext([top EXCEPT !.skipResource = "false"], "")
                 ELSE [top EXCEPT !.skipResource = "true",
                                  !.pc = "loadResource"])
  /\ UNCHANGED <<heap, subm, res, reqNo, inst>>

\* Mutant: the series goes on to loadSubmission after a failed form load.
loadResourceIgnoringError ==
  /\ top.pc = "loadResource"
  /\ \E outcome \in {"form", "null"} \cup LoaderErrors :
       LET f == [top EXCEPT !.nLoadForm = @ + 1]
       IN  stack' = SetTop(
             CASE outcome = "form" ->
                    [f EXCEPT !.resource = settings.resource,
                              !.pc = "loadSubmission"]
               [] outcome = "null" ->
                    [f EXCEPT !.resource = "null", !.pc = "loadSubmission"]
               [] OTHER -> [f EXCEPT !.loadFailed = "form",
                                     !.pc = "loadSubmission"])
  /\ UNCHANGED <<cfg, heap, subm, res, reqNo, inst>>

(***************************************************************************)
(* loadResource (lines 145-155): cache.loadForm answers.  A form or a      *)
(* null result is stored in cache.resource and the series moves on; what   *)
(* the loader throws is handed to the series callback, which passes it to  *)
(* next (lines 276-279).                                                   *)
(***************************************************************************)
loadResource ==
  /\ top.pc = "loadResource"
  /\ \E outcome \in {"form", "null"} \cup LoaderErrors :
       LET f == [top EXCEPT !.nLoadForm = @ + 1]
       IN  stack' = SetTop(
             CASE outcome = "form" ->
                    [f EXCEPT !.resource = settings.resource,
                              !.pc = "loadSubmission"]
               [] outcome = "null" ->
                    [f EXCEPT !.resource = "null", !.pc = "loadSubmission"]
               [] OTHER -> CallNext([f EXCEPT !.loadFailed = "form"], outcome))
  /\ UNCHANGED <<cfg, heap, subm, res, reqNo, inst>>

(***************************************************************************)
(* loadSubmission, up to its first await (lines 232-247).                  *)
(***************************************************************************)
loadSubmission ==
  /\ top.pc = "loadSubmission"
  /\ IF cfg.method # "PUT"
     THEN \* const submission = {data: {}, roles: []}
          /\ heap' = Append(heap, EmptyObject)
          /\ subm' = Append(subm, Submission(FALSE, "", FALSE, FALSE, << >>,
                                             Obj(Len(heap) + 1)))
          /\ stack' = SetTop([top EXCEPT !.pc = "updateSubmission"])
     ELSE /\ IF ~body.hasId \/ ~body.hasForm
             THEN stack' = SetTop(CallNext(top, ""))   \* then(); no cache.submission
             ELSE stack' = SetTop([top EXCEPT !.pc = "loadCurrent"])
          /\ UNCHANGED <<heap, subm>>
  /\ UNCHANGED <<cfg, res, reqNo, inst>>

\* Mutant: any record of type 'resource' matches, whatever its resource.
FindExternalAnyResource(ext, r) ==
  LET hits == { i \in 1..Len(ext) : ext[i].type = "resource" }
  IN  IF hits = {} THEN 0 ELSE CHOOSE i \in hits : \A j \in hits : i <= j

\* Mutant: the last matching record instead of the first.
FindExternalLast(ext, r) ==
  LET hits == { i \in 1..Len(ext) : ext[i].type = "resource" /\ ext[i].resource = r }
  IN  IF hits = {} THEN 0 ELSE CHOOSE i \in hits : \A j \in hits : i >= j

\* _.find(externalIds, {type: 'resource', resource: r}): the first match, or 0.
FindExternal(ext, r) ==
  LET hits == { i \in 1..Len(ext) : ext[i].type = "resource" /\ ext[i].resource = r }
  IN  IF hits = {} THEN 0 ELSE CHOOSE i \in hits : \A j \in hits : i <= j

(***************************************************************************)
(* loadSubmission, after the stored primary submission is loaded           *)
(* (lines 247-257).  A null result makes currentSubmission.externalIds     *)
(* throw a TypeError inside the try block.                                 *)
(***************************************************************************)
loadCurrent ==
  /\ top.pc = "loadCurrent"
  /\ \/ \E e \in LoaderErrors :
          stack' = SetTop(CallNext([top EXCEPT !.nLoadSub = @ + 1,
                                               !.loadFailed = "current"], e))
     \/ \* no such submission: null.externalIds throws inside the try block
        stack' = SetTop(CallNext([top EXCEPT !.nLoadSub = @ + 1,
                                             !.loadFailed = "missing"], "TypeError"))
     \/ \E ext \in ExtSeqs(MaxExternalIds, settings.resource) :
          LET i == FindExternal(ext, settings.resource)
              f == [top EXCEPT !.nLoadSub = @ + 1,
                               !.linked = LinkedId(ext, settings.resource)]
          IN  stack' = SetTop(
                IF i = 0 THEN CallNext(f, "")
                ELSE [f EXCEPT !.external = ext[i].id, !.pc = "loadChild"])
  /\ UNCHANGED <<cfg, heap, subm, res, reqNo, inst>>

(***************************************************************************)
(* loadSubmission, after the linked child submission is loaded             *)
(* (lines 257-261).  The loader answers with the stored document of that   *)
(* id, with no document, or throws.                                        *)
(***************************************************************************)
loadChild ==
  /\ top.pc = "loadChild"
  /\ \/ /\ \E e \in LoaderErrors :
             stack' = SetTop(CallNext([top EXCEPT !.nLoadSub = @ + 1,
                                                  !.loadFailed = "child"], e))
        /\ UNCHANGED <<heap, subm>>
     \/ /\ stack' = SetTop(CallNext([top EXCEPT !.nLoadSub = @ + 1,
                                                  !.missing = TRUE], ""))
        /\ UNCHANGED <<heap, subm>>
     \/ \E hasId \in BOOLEAN, tr \in ChildTrees :
          LET r == Alloc(heap, tr)
          IN  /\ heap' = r.h
              /\ subm' = Append(subm, Submission(hasId, top.external, TRUE,
                                                 FALSE, << >>, r.v))
              /\ stack' = SetTop([top EXCEPT !.nLoadSub = @ + 1,
                                             !.pc = "updateSubmission"])
  /\ UNCHANGED <<cfg, res, reqNo, inst>>

(***************************************************************************)
(* updateSubmission, up to its await (lines 192-206): the configured       *)
(* fields are written into the child's data with _.set, which stores the   *)
(* very value _.get returned.                                              *)
(***************************************************************************)
RECURSIVE MergeFieldsNullWriting(_, _, _, _, _)
\* Mutant: a source field that is not set is written as undefined.
MergeFieldsNullWriting(h, child, data, fields, i) ==
  IF i > Len(fields) THEN h
  ELSE LET key   == PathOf(fields[i].key)
           field == fields[i].field
           h2 == IF field = "data" THEN Set(h, child, key, data)
                 ELSE Set(h, child, key, Get(h, data, PathOf(field)))
       IN  MergeFieldsNullWriting(h2, child, data, fields, i + 1)

RECURSIVE MergeFields(_, _, _, _, _)
MergeFields(h, child, data, fields, i) ==
  IF i > Len(fields) THEN h
  ELSE LET key   == PathOf(fields[i].key)
           field == fields[i].field
           h2 == IF field = "data" THEN Set(h, child, key, data)
                 ELSE IF Has(h, data, PathOf(field))
                      THEN Set(h, child, key, Get(h, data, PathOf(field)))
                      ELSE h
       IN  MergeFields(h2, child, data, fields, i + 1)

updateSubmission ==
  /\ top.pc = "updateSubmission"
  /\ \E fs \in Draw("fields", IF cfg.resourceB = "" THEN FieldSettings
                                ELSE MutualFieldSettings),
        tf \in Draw("transform", IF cfg.resourceB = "" THEN Transforms
                                 ELSE MutualTransforms) :
       LET submission == subm[Level + 1]
           h == MergeFields(heap, submission.data.a, body.data, fs, 1)
           f == [top EXCEPT !.merged = Deref(h, submission.data)]
       IN  /\ cfg' = With(With(cfg, "fields", fs), "transform", tf)
           /\ heap' = h
           /\ stack' = SetTop(
                IF tf # ""
                THEN [f EXCEPT !.pc = "evaluate"]
                ELSE [f EXCEPT !.hasSub = TRUE, !.pc = "saveToResource"])
  /\ UNCHANGED <<subm, res, reqNo, inst>>

(***************************************************************************)
(* The sandbox (lines 208-214).  The script is                             *)
(*     data=submission.data; <transform> data;                             *)
(* run with copies of the bindings submission (res.resource.item, or       *)
(* req.body when there is none) and data (the merged child data).          *)
(***************************************************************************)
ItemData(id) == [t |-> "itemdata", v |-> id, a |-> 0, m |-> << >>]

Evaluate(transform, submissionData, data) ==
  LET data1 == submissionData     \* data=submission.data;
  IN  IF transform = "keep" THEN data1
      ELSE TMap([data |-> TLeaf("z")])   \* the transform assigns data

\* Mutant: the error of the script is passed to next.
OnEvalErrorFatal(f) ==
  [f EXCEPT !.evalFailed = TRUE, !.pc = "done", !.nextCalls = @ + 1,
            !.nextErr = "EVAL"]

\* The catch block of lines 218-220: the error is logged, nothing else.
OnEvalError(f) == [f EXCEPT !.evalFailed = TRUE]

\* updateSubmission after the await (lines 215-223), then lines 237/261.
evaluate ==
  /\ top.pc = "evaluate"
  /\ \/ LET bound == IF res.hasItem THEN ItemData(res.id)
                     ELSE Deref(heap, body.data)
            r == Alloc(heap, Evaluate(settings.transform, bound,
                                      Deref(heap, subm[Level + 1].data)))
        IN  /\ heap' = r.h
            /\ subm' = [subm EXCEPT ![Level + 1].data = r.v]
            /\ stack' = SetTop([top EXCEPT !.nEval = @ + 1,
                                           !.isTransformedData = TRUE,
                                           !.hasSub = TRUE,
                                           !.pc = "saveToResource"])
     \/ \* the script throws or runs out of time: caught and logged
        LET f == OnEvalError([top EXCEPT !.nEval = @ + 1])
        IN  /\ stack' = SetTop(IF f.pc = "done" THEN f
                                ELSE [f EXCEPT !.hasSub = TRUE,
                                               !.pc = "saveToResource"])
            /\ UNCHANGED <<heap, subm>>
  /\ UNCHANGED <<cfg, res, reqNo, inst>>

(***************************************************************************)
(* util.createSubRequest: the clone is refused once the request's count of *)
(* child requests exceeds the bound.  The frame at level l serves a        *)
(* request that is l - 1 clones away from the primary request.             *)
(***************************************************************************)
ChildRequests(l) == l - 1
Refuses(childRequests, bound) == childRequests > bound
DepthBounds == 1..MaxDepthBound
\* The bound is read when the answer depends on it.
BoundMatters(n) == \E b1, b2 \in DepthBounds : Refuses(n, b1) # Refuses(n, b2)

Lower(m) == CASE m = "POST" -> "post" [] m = "PUT" -> "put"
              [] m = "PATCH" -> "patch" [] OTHER -> "get"

\* Mutant: the child request is sent without noResponse.
ChildReqWithResponse(h, f, b, url, m) ==
  [permissionsChecked |-> TRUE, noResponse |-> FALSE, formId |-> f.resource,
   subId |-> IF url = ByIdUrl THEN b.id ELSE "", url |-> url, method |-> m,
   data |-> Deref(h, b.data), sent |-> TRUE]

\* The child request as lines 99-123 leave it.
ChildReq(h, f, b, url, m) ==
  [permissionsChecked |-> TRUE, noResponse |-> TRUE, formId |-> f.resource,
   subId |-> IF url = ByIdUrl THEN b.id ELSE "", url |-> url, method |-> m,
   data |-> Deref(h, b.data), sent |-> TRUE]

\* Mutant: a refused clone is not noticed.
SaveOutcomeNoRecursionCheck(refused, resource, method, hasId) ==
  CASE resource = "null"       -> "TypeError"
    [] method = "put" /\ ~hasId -> "ENOIDP"
    [] OTHER                   -> "lookup"

\* Mutant: an update is dispatched whether or not the child has an _id.
SaveOutcomeNoIdCheck(refused, resource, method, hasId) ==
  CASE refused           -> "EREQRECUR"
    [] resource = "null" -> "TypeError"
    [] OTHER             -> "lookup"

\* What saveToResource decides before it looks for a handler (lines 87-119):
\* refused is !childReq, resource is cache.resource, hasId is body._id.
SaveOutcome(refused, resource, method, hasId) ==
  CASE refused                 -> "EREQRECUR"
    [] resource = "null"       -> "TypeError"     \* resource._id of null
    [] method = "put" /\ ~hasId -> "ENOIDP"
    [] OTHER                   -> "lookup"

(***************************************************************************)
(* saveToResource (lines 79-139), called with cache.resource and           *)
(* cache.submission by the series callback (lines 281-288).  An error is   *)
(* passed to done, that is to next, and assignResource is skipped.  A      *)
(* registered handler is called with the child request: it runs the Save   *)
(* Submission action of the target form on it, which is a new frame.       *)
(* cache.resource = null makes resource._id throw: the exception escapes   *)
(* the callback chain and next is never called.                            *)
(***************************************************************************)
saveToResource ==
  /\ top.pc = "saveToResource"
  /\ LET b == subm[Level + 1]
         n == ChildRequests(Level)
         method == Lower(cfg.method)
         url == IF method = "put" THEN ByIdUrl ELSE BaseUrl
     IN  \E bound \in (IF BoundMatters(n) THEN Draw("depthBound", DepthBounds)
                       ELSE {cfg.depthBound}) :
           LET c1 == IF BoundMatters(n) THEN With(cfg, "depthBound", bound) ELSE cfg
               outcome == SaveOutcome(Refuses(n, bound), top.resource,
                                      method, b.hasId)
           IN  IF outcome = "TypeError"
               THEN /\ stack' = SetTop([top EXCEPT !.pc = "crashed"])
                    /\ cfg' = c1
               ELSE IF outcome # "lookup"
               THEN /\ stack' = SetTop(CallNext(top, outcome))
                    /\ cfg' = c1
               ELSE \E reg \in Draw("registry", Registries) :
                      /\ cfg' = [c1 EXCEPT !.registry = reg,
                                           !.read = @ \cup {"registry"}]
                      /\ IF <<url, method>> \in reg
                         THEN LET req == ChildReq(heap, top, b, url, cfg.method)
                              IN  stack' = Append(
                                    SetTop([top EXCEPT !.sent = req,
                                                       !.pc = "handler"]),
                                    Frame(heap, b, top.skipResource, req))
                         ELSE stack' = SetTop(CallNext(top, "ENOHANDLER"))
  /\ UNCHANGED <<heap, subm, res, reqNo, inst>>

(***************************************************************************)
(* The resource handler, once the target form's action has called next:    *)
(* an error of the action is passed on to done; otherwise the handler      *)
(* saves and calls done: with an error, with res.resource.item set to the  *)
(* saved submission, or without touching res.resource.  done is the series *)
(* callback of lines 285-288.                                              *)
(***************************************************************************)
handler ==
  /\ Level > 1
  /\ top.pc \in {"done", "crashed"}
  /\ LET parent == stack[Level - 1]
         Return(f) == [i \in 1..(Level - 1) |-> IF i = Level - 1 THEN f ELSE stack[i]]
     IN  IF top.pc = "crashed"
         THEN /\ stack' = Return([parent EXCEPT !.pc = "crashed"])
              /\ res' = res
         ELSE IF top.nextErr # ""
         THEN /\ stack' = Return(CallNext([parent EXCEPT !.handled = "error"],
                                          top.nextErr))
              /\ res' = res
         ELSE \/ \E e \in HandlerErrors :
                   /\ stack' = Return(CallNext([parent EXCEPT !.handled = "error"], e))
                   /\ res' = res
              \/ \E id \in Ids :
                   /\ stack' = Return([parent EXCEPT !.handled = "item",
                                                     !.savedId = id,
                                                     !.pc = "assignResource"])
                   /\ res' = [hasItem |-> TRUE, id |-> id]
              \/ /\ stack' = Return([parent EXCEPT !.handled = "noitem",
                                                   !.pc = "assignResource"])
                 /\ res' = res
  /\ UNCHANGED <<cfg, heap, subm, reqNo, inst>>

\* Mutant: req.body.externalIds = [] before the push.
PushExternalIdReset(hasExt, ext, resource, id) ==
  <<ExtRec("resource", resource, id)>>

\* Lines 174-179: req.body.externalIds = req.body.externalIds || []; push.
PushExternalId(hasExt, ext, resource, id) ==
  Append(IF hasExt THEN ext ELSE << >>, ExtRec("resource", resource, id))

\* Mutant: every request that is not an update is linked.
ShouldLinkAnyCreate(method, hasItem) == method # "PUT" /\ hasItem

\* Line 172: (req.method === 'POST') && res.resource && res.resource.item.
ShouldLink(method, hasItem) == method = "POST" /\ hasItem

\* Mutant: the child submission is linked even when the handler saved an item.
LinkedResourceIgnoringItem(hasItem, id, l) == SubV(l)

\* Line 164: res.resource.item when there is one, else cache.submission
\* (subm[l] is the cache.submission of the frame below it).
LinkedResource(hasItem, id, l) == IF hasItem THEN ItemV(id) ELSE SubV(l)

(***************************************************************************)
(* assignResource (lines 162-183).                                         *)
(***************************************************************************)
assignResource ==
  /\ top.pc = "assignResource"
  /\ \E property \in Draw("property", Properties) :
       LET resource == LinkedResource(res.hasItem, res.id, Level + 1)
       IN  /\ cfg' = With(cfg, "property", property)
           /\ heap' = IF property # ""
                      THEN [heap EXCEPT ![body.data.a] = Put(@, property, resource)]
                      ELSE heap
           /\ subm' = IF ShouldLink(cfg.method, res.hasItem)
                      THEN [subm EXCEPT
                              ![Level].hasExt = TRUE,
                              ![Level].ext =
                                 PushExternalId(body.hasExt, body.ext,
                                                settings.resource, res.id)]
                      ELSE subm
           /\ stack' = SetTop(CallNext([top EXCEPT !.assigned = TRUE], ""))
  /\ UNCHANGED <<res, reqNo, inst>>

(***************************************************************************)
(* Once a primary update request is over, the client sends it again.       *)
(***************************************************************************)
nextUpdate ==
  /\ Level = 1
  /\ top.pc \in {"done", "crashed"}
  /\ cfg.method = "PUT"
  /\ body.exists
  /\ reqNo < MaxRequests
  /\ reqNo' = reqNo + 1
  /\ LET again == Request([hasId |-> body.hasId, hasForm |-> body.hasForm,
                           hasExt |-> top.pre.hasExt, ext |-> top.pre.ext,
                           tree |-> top.pre.data], TRUE)
     IN  /\ heap' = again.heap
         /\ subm' = again.subm
         /\ stack' = again.stack
         /\ res' = again.res
  /\ cfg' = cfg
  /\ UNCHANGED inst

Next ==
  \/ resolve
  \/ loadResource
  \/ loadSubmission
  \/ loadCurrent
  \/ loadChild
  \/ updateSubmission
  \/ evaluate
  \/ saveToResource
  \/ handler
  \/ assignResource
  \/ nextUpdate

Spec == Init /\ [][Next]_vars

(***************************************************************************)
(* Properties.  Trees are compared by structure.                           *)
(***************************************************************************)
RECURSIVE TreeHas(_, _)
TreeHas(tr, p) ==
  IF p = << >> THEN TRUE
  ELSE /\ tr.t = "map"
       /\ p[1] \in DOMAIN tr.m
       /\ TreeHas(tr.m[p[1]], Tail(p))

RECURSIVE TreeGet(_, _)
TreeGet(tr, p) == IF p = << >> THEN tr ELSE TreeGet(tr.m[p[1]], Tail(p))

RECURSIVE TreePaths(_)
\* The paths of all properties in tr, nested ones included.
TreePaths(tr) ==
  IF tr.t # "map" THEN {}
  ELSE UNION { {<<k>>} \cup { <<k>> \o q : q \in TreePaths(tr.m[k]) } :
               k \in DOMAIN tr.m }

\* The pair fs[i] has a value to write.
Written(prim, fs, i) ==
  fs[i].field = "data" \/ TreeHas(prim, PathOf(fs[i].field))

\* child is the projection of prim under fs, pair by pair, and nothing more.
Projection(child, prim, fs) ==
  /\ \A i \in 1..Len(fs) :
        LET k == PathOf(fs[i].key)
        IN  IF fs[i].field = "data"
            THEN TreeHas(child, k) /\ TreeGet(child, k) = prim
            ELSE IF TreeHas(prim, PathOf(fs[i].field))
            THEN /\ TreeHas(child, k)
                 /\ TreeGet(child, k) = TreeGet(prim, PathOf(fs[i].field))
            ELSE ~TreeHas(child, k)
  /\ \A q \in TreePaths(child) :
        \E i \in 1..Len(fs) :
           /\ Written(prim, fs, i)
           /\ IsPrefix(q, PathOf(fs[i].key)) \/ IsPrefix(PathOf(fs[i].key), q)

StructuralErrors == {"EREQRECUR", "ENOIDP", "ENOHANDLER"}
Mutual == cfg.resourceA = "B" /\ cfg.resourceB = "A"
BodyUnchanged(l) ==
  /\ Snapshot(heap, subm[l]).data = stack[l].pre.data
  /\ subm[l].hasExt = stack[l].pre.hasExt
  /\ subm[l].ext = stack[l].pre.ext

\* C1: when forms A and B save into each other, a save on A starts only a
\* bounded number of nested child saves (at most the recursion bound plus
\* two invocations of resolve are ever running), and the invocation whose
\* clone is refused dispatches no handler, skips the link stage and calls
\* its next exactly once with EREQRECUR.
C1_RecursionYieldsEREQRECUR ==
  /\ Len(stack) <= cfg.depthBound + 2
  /\ \A l \in 1..Len(stack) :
        LET f == stack[l]
        IN  (l - 1 > cfg.depthBound /\ f.hasSub /\ f.pc # "saveToResource") =>
               /\ Mutual
               /\ f.pc = "done"
               /\ f.nextCalls = 1
               /\ f.nextErr = "EREQRECUR"
               /\ ~f.sent.sent
               /\ f.handled = ""
               /\ ~f.assigned

C1_Witness ==
  /\ Mutual
  /\ cfg.depthBound = 2
  /\ Len(stack) = 4
  /\ stack[4].pc = "done"
  /\ stack[4].nextErr = "EREQRECUR"

\* C2 as stated: an update request whose own body lacks _id, with
\* settings.resource configured and the resource loaded, ends with ENOIDP
\* and without a handler call.
C2_UpdateWithoutIdFails ==
  \A l \in 1..Len(stack) :
     LET f == stack[l]
     IN  (/\ cfg.method = "PUT"
          /\ SettingsOf(cfg, l).resource # ""
          /\ f.pc = "done"
          /\ f.loadFailed = ""
          /\ f.resource # "unset"
          /\ ~subm[l].hasId) =>
            f.nextErr = "ENOIDP" /\ ~f.sent.sent

\* C2 amended: on an update request, ENOIDP is the outcome when the linked
\* child submission that was loaded for the update lacks _id: next is
\* called once with ENOIDP and no handler is invoked.  A request whose own
\* body lacks _id loads no submission, dispatches nothing and calls next
\* without an error.
C2_ChildWithoutIdFails ==
  \A l \in 1..Len(stack) :
     LET f == stack[l]
     IN  (cfg.method = "PUT" /\ f.pc = "done") =>
            /\ (f.hasSub /\ ~subm[l + 1].hasId) =>
                  /\ f.nextErr = "ENOIDP"
                  /\ f.nextCalls = 1
                  /\ ~f.sent.sent
                  /\ f.handled = ""
            /\ (f.resource # "unset" /\ f.loadFailed = "" /\ ~subm[l].hasId) =>
                  /\ f.nextErr = ""
                  /\ f.nLoadSub = 0
                  /\ ~f.hasSub
                  /\ ~f.sent.sent

C2_Witness ==
  /\ cfg.method = "PUT"
  /\ stack[1].pc = "done"
  /\ stack[1].nextErr = "ENOIDP"
  /\ subm[1].hasId
  /\ ~subm[2].hasId

\* C3: when a create (POST) request has run through resolve and its child
\* save produced the saved child, the body's externalIds is what it was at
\* entry followed by exactly one record
\* {type: 'resource', resource: settings.resource, id: the saved child's id};
\* when the child save failed (next was called with an error) the
\* externalIds are what they were at entry.
C3_CreateAppendsOneExternalId ==
  \A l \in 1..Len(stack) :
     LET f == stack[l]
     IN  (cfg.method = "POST" /\ f.pc = "done") =>
            /\ f.handled = "item" =>
                  /\ f.nextErr = ""
                  /\ subm[l].hasExt
                  /\ Len(subm[l].ext) = Len(f.pre.ext) + 1
                  /\ subm[l].ext =
                        Append(f.pre.ext,
                               [type |-> "resource",
                                resource |-> SettingsOf(cfg, l).resource,
                                id |-> f.savedId])
            /\ f.nextErr # "" =>
                  /\ subm[l].hasExt = f.pre.hasExt
                  /\ subm[l].ext = f.pre.ext

C3_Witness ==
  /\ cfg.method = "POST"
  /\ stack[1].pc = "done"
  /\ stack[1].handled = "item"
  /\ stack[1].savedId = "c2"
  /\ Len(stack[1].pre.ext) = 1
  /\ Len(subm[1].ext) = 2

\* C4: on an update (PUT) request, whenever the child save is dispatched it
\* goes to the update-by-id endpoint with method PUT and submissionId equal
\* to the id of the child the stored primary submission links to for
\* settings.resource; a linked child that was loaded with its _id is
\* dispatched whenever the handler is registered; and the request body's
\* externalIds stay what they were at entry, request after request.
C4_UpdateRelinksSameChild ==
  \A l \in 1..Len(stack) :
     LET f == stack[l]
     IN  cfg.method = "PUT" =>
            /\ f.sent.sent =>
                  /\ f.linked # ""
                  /\ f.sent.url = ByIdUrl
                  /\ f.sent.method = "PUT"
                  /\ f.sent.subId = f.linked
            /\ (/\ f.pc = "done"
                /\ f.hasSub
                /\ subm[l + 1].hasId
                /\ <<ByIdUrl, "put">> \in cfg.registry) => f.sent.sent
            /\ subm[l].hasExt = f.pre.hasExt
            /\ subm[l].ext = f.pre.ext

C4_Witness ==
  /\ cfg.method = "PUT"
  /\ reqNo = 2
  /\ stack[1].pc = "done"
  /\ stack[1].sent.sent
  /\ stack[1].sent.subId = "c2"
  /\ stack[1].assigned
  /\ Len(subm[1].ext) = 1

\* C5: an invocation of resolve for a method other than POST/PUT/PATCH, for
\* a request with skipSave set, or under settings without a resource loads
\* no form and no submission, merges and evaluates nothing, dispatches no
\* child save, leaves req.body as it was, and its only step is one call of
\* next without an error.
C5_GatesPassThrough ==
  \A l \in 1..Len(stack) :
     LET f == stack[l]
     IN  (\/ cfg.method \notin {"POST", "PUT", "PATCH"}
          \/ cfg.skipSave
          \/ SettingsOf(cfg, l).resource = "") =>
            /\ f.pc \in {"start", "done"}
            /\ f.nLoadForm = 0
            /\ f.nLoadSub = 0
            /\ f.nEval = 0
            /\ ~f.hasSub
            /\ ~f.sent.sent
            /\ ~f.assigned
            /\ Snapshot(heap, subm[l]) = f.pre
            /\ f.pc = "start" => f.nextCalls = 0
            /\ f.pc = "done" => f.nextCalls = 1 /\ f.nextErr = ""

C5_Witness ==
  /\ cfg.method \in {"POST", "PUT", "PATCH"}
  /\ ~cfg.skipSave
  /\ subm[1].exists
  /\ "resourceA" \in cfg.read
  /\ cfg.resourceA = ""
  /\ stack[1].pc = "done"
  /\ stack[1].nextCalls = 1

\* C6 as stated: for a primary create request without a transform, the data
\* of the dispatched body is the projection of the primary's data under
\* settings.fields: every pair's target holds the whole primary data (source
\* 'data') or the value at the source field, a pair whose source is not set
\* leaves its target path unwritten, and nothing else is written.
C6_DispatchedDataIsProjection ==
  LET f == stack[1]
  IN  (cfg.method \in {"POST", "PATCH"} /\ f.sent.sent /\ cfg.transform = "") =>
         Projection(f.sent.data, f.pre.data, cfg.fields)

\* C6 amended: the same, for settings.fields none of whose target paths
\* leads through another target path.
C6_DisjointProjection ==
  LET f == stack[1]
  IN  (/\ cfg.method \in {"POST", "PATCH"}
       /\ f.sent.sent
       /\ cfg.transform = ""
       /\ DisjointTargets(cfg.fields)) =>
         Projection(f.sent.data, f.pre.data, cfg.fields)

C6_Witness ==
  /\ cfg.method = "POST"
  /\ stack[1].sent.sent
  /\ cfg.transform = ""
  /\ cfg.fields = <<[key |-> "data", field |-> "data"],
                    [key |-> "b", field |-> "a.b"]>>
  /\ ~TreeHas(stack[1].pre.data, <<"a", "b">>)
  /\ TreeHas(stack[1].sent.data, <<"data", "a">>)

\* C7: after a transform script has thrown or timed out, the child
\* submission's data is the merged data, the child save is dispatched with
\* the merged data, a child save that succeeds is followed by the link stage
\* and by next without an error, and an error passed to next is one of the
\* save stage, never the script's.
C7_TransformFailureContained ==
  \A l \in 1..Len(stack) :
     LET f == stack[l]
     IN  f.evalFailed =>
            /\ f.hasSub
            /\ f.pc \in {"saveToResource", "handler", "assignResource",
                         "done", "crashed"}
            /\ f.pc = "saveToResource" =>
                  Deref(heap, subm[l + 1].data) = f.merged
            /\ f.sent.sent => f.sent.data = f.merged
            /\ (f.pc = "done" /\ f.handled \in {"item", "noitem"}) =>
                  f.assigned /\ f.nextErr = "" /\ f.nextCalls = 1
            /\ (f.pc = "done" /\ f.nextErr # "") =>
                  f.handled = "error" \/ f.nextErr \in StructuralErrors

C7_Witness ==
  /\ stack[1].evalFailed
  /\ stack[1].pc = "done"
  /\ stack[1].sent.sent
  /\ stack[1].sent.data = TMap([b |-> TLeaf("x")])
  /\ stack[1].assigned
  /\ stack[1].nextErr = ""

\* C8: after the successful evaluation of a transform that never assigns or
\* mutates data, the child submission's data is the merged child data.
C8_NoOpTransformKeepsMerged ==
  \A l \in 1..Len(stack) :
     LET f == stack[l]
     IN  (/\ cfg.transform = "keep"
          /\ f.nEval = 1
          /\ ~f.evalFailed
          /\ f.pc = "saveToResource") =>
            Deref(heap, subm[l + 1].data) = f.merged

\* C9: an invocation whose save stage ends in EREQRECUR, ENOIDP or
\* ENOHANDLER calls next once with that code, has invoked no handler, has
\* not run the link stage, and has left the data and the externalIds of its
\* request body as they were at entry.
C9_StructuralErrorsFatal ==
  \A l \in 1..Len(stack) :
     LET f == stack[l]
     IN  (f.pc = "done" /\ f.handled = "" /\ f.nextErr \in StructuralErrors) =>
            /\ f.nextCalls = 1
            /\ ~f.sent.sent
            /\ ~f.assigned
            /\ BodyUnchanged(l)

\* C10: a failed load of the target resource ends the pipeline with
\* EFORMLOAD passed to next and with no later stage run; a failed load of
\* the primary or of the linked child submission on an update ends it with
\* ESUBLOAD passed to next and without child save and link stage.
C10_LoadErrorsByCode ==
  \A l \in 1..Len(stack) :
     LET f == stack[l]
     IN  /\ f.loadFailed = "form" =>
               /\ f.pc = "done"
               /\ f.nextErr = "EFORMLOAD"
               /\ f.nLoadSub = 0
               /\ f.nEval = 0
               /\ ~f.hasSub
               /\ ~f.sent.sent
               /\ ~f.assigned
         /\ f.loadFailed \in {"current", "missing", "child"} =>
               /\ f.pc = "done"
               /\ f.nextErr = "ESUBLOAD"
               /\ ~f.sent.sent
               /\ ~f.assigned

\* C11: on an update (PUT) request whose stored primary submission links to
\* no child of settings.resource, or whose linked child loads as missing,
\* the invocation ends right after that load: nothing is merged or
\* evaluated, no child save is dispatched, the link stage does not run, the
\* body's data and externalIds are what they were at entry, and next is
\* called once without an error.
C11_UpdateWithoutLinkIsNoOp ==
  \A l \in 1..Len(stack) :
     LET f == stack[l]
     IN  (/\ cfg.method = "PUT"
          /\ f.loadFailed = ""
          /\ \/ f.nLoadSub >= 1 /\ f.linked = ""
             \/ f.missing) =>
            /\ f.pc = "done"
            /\ f.nextCalls = 1
            /\ f.nextErr = ""
            /\ ~f.hasSub
            /\ f.nEval = 0
            /\ f.merged = TCut
            /\ ~f.sent.sent
            /\ f.handled = ""
            /\ ~f.assigned
            /\ Len(subm) = l
            /\ BodyUnchanged(l)

C11_Witness ==
  /\ cfg.method = "PUT"
  /\ stack[1].pc = "done"
  /\ stack[1].linked = "c1"
  /\ stack[1].missing
  /\ stack[1].nLoadSub = 2

\* C12: the child request a handler was called with (the request of every
\* nested invocation, which is what its parent recorded as sent) has
\* permissionsChecked and noResponse set, carries the parent's child
\* submission as its body, has formId equal to the id of the parent's target
\* resource, and has the url and method its handler is registered under: the
\* base endpoint without submissionId for POST and PATCH, the by-id endpoint
\* with submissionId = body._id for PUT.
C12_ChildRequestShape ==
  \A l \in 2..Len(stack) :
     LET req == stack[l].req
         parent == stack[l - 1]
     IN  /\ req = parent.sent
         /\ req.sent
         /\ req.permissionsChecked
         /\ req.noResponse
         /\ req.data = stack[l].pre.data
         /\ parent.hasSub
         /\ req.formId = SettingsOf(cfg, l - 1).resource
         /\ req.formId = parent.resource
         /\ req.method = cfg.method
         /\ <<req.url, Lower(req.method)>> \in cfg.registry
         /\ IF cfg.method = "PUT"
            THEN /\ req.url = ByIdUrl
                 /\ subm[l].hasId
                 /\ req.subId = subm[l].id
            ELSE /\ req.url = BaseUrl
                 /\ req.subId = ""

C12_Witness ==
  /\ Len(stack) = 2
  /\ cfg.method = "PUT"
  /\ stack[2].req.url = ByIdUrl
  /\ stack[2].req.subId = "c2"
  /\ stack[2].req.noResponse

\* C13: at every point of every invocation, each key of the request body's
\* data other than settings.property holds what it held at entry, no key
\* other than settings.property has been added or removed, and
\* settings.property itself is written only by the link stage.
C13_PrimaryDataOnlyGainsProperty ==
  \A l \in 1..Len(stack) :
     LET f == stack[l]
         now == Deref(heap, subm[l].data)
         linkKey == IF f.assigned /\ cfg.property # "" THEN {cfg.property} ELSE {}
     IN  subm[l].exists =>
            /\ now.t = f.pre.data.t
            /\ (DOMAIN now.m) \ linkKey = (DOMAIN f.pre.data.m) \ linkKey
            /\ \A k \in (DOMAIN now.m) \ linkKey : now.m[k] = f.pre.data.m[k]

\* The number of records in ext that link to a submission of resource r.
LinksTo(ext, r) ==
  Cardinality({ i \in 1..Len(ext) :
                  ext[i].type = "resource" /\ ext[i].resource = r })

\* C14: once an invocation is over, a request body whose externalIds held
\* at most one record of type 'resource' for settings.resource at entry
\* still holds at most one such record.
C14_NoDuplicateExternalId ==
  \A l \in 1..Len(stack) :
     LET f == stack[l]
         r == SettingsOf(cfg, l).resource
     IN  (f.pc = "done" /\ r # "" /\ LinksTo(f.pre.ext, r) <= 1) =>
            LinksTo(subm[l].ext, r) <= 1

StagesInOrder(f) ==
  /\ (f.nLoadSub > 0 \/ f.merged # TCut) =>
        f.nLoadForm = 1 /\ f.resource # "unset"
  /\ f.loadFailed = "form" => f.nLoadSub = 0 /\ f.merged = TCut
  /\ f.loadFailed # "" =>
        /\ f.pc = "done" /\ f.nextErr # ""
        /\ f.nEval = 0 /\ ~f.hasSub /\ ~f.sent.sent /\ ~f.assigned
  /\ f.nEval > 0 => f.merged # TCut
  /\ f.hasSub =>
        /\ f.merged # TCut
        /\ f.loadFailed = ""
        /\ cfg.transform # "" => f.nEval = 1
  /\ f.sent.sent => f.hasSub /\ f.resource \notin {"unset", "null"}
  /\ f.handled # "" => f.sent.sent
  /\ f.pc = "assignResource" => f.handled \in {"item", "noitem"}
  /\ f.assigned => f.handled \in {"item", "noitem"} /\ f.nextErr = ""
  /\ f.nextErr # "" => f.pc = "done" /\ ~f.assigned
  /\ (f.nextErr # "" /\ f.handled = "") => ~f.sent.sent

\* C16: the stages of every invocation run in sequence (form load,
\* submission load with merge and transform, child save, link), each only
\* after the one before it has completed without an error, and an
\* invocation that has called next (with or without an error) takes no
\* further step while its request is served.
C16_StagesInSequence ==
  /\ [](\A l \in 1..Len(stack) : StagesInOrder(stack[l]))
  /\ [][reqNo' = reqNo =>
          \A l \in 1..Len(stack) :
             (stack[l].pc = "done" /\ l <= Len(stack')) =>
                stack'[l] = stack[l]]_vars

C16_Witness ==
  /\ stack[1].pc = "done"
  /\ stack[1].nLoadForm = 1
  /\ stack[1].nLoadSub = 2
  /\ stack[1].nEval = 1
  /\ stack[1].handled = "item"
  /\ stack[1].assigned

\* C17: no invocation of resolve calls next twice, and none comes to rest
\* without having called next: an invocation is either still on its way to
\* a call of next or has called it exactly once.
C17_NextCalledExactlyOnce ==
  \A l \in 1..Len(stack) :
     LET f == stack[l]
     IN  /\ f.nextCalls <= 1
         /\ f.nextCalls = 1 <=> f.pc = "done"
         /\ f.pc # "crashed"

\* C18: once an invocation has passed its gates, req.skipResource is what
\* the gates made it: unchanged (unset on a primary request, the cloned
\* value on a child request) when the first gate returned, false when the
\* first gate passed and no settings.resource is configured, and true from
\* then on when a settings.resource is configured, whatever the outcome; on
\* the PUT no-op the flag is true although no child save was dispatched.
C18_SkipResourceFlag ==
  \A l \in 1..Len(stack) :
     LET f == stack[l]
         firstGate == \/ cfg.skipSave
                      \/ ~subm[l].exists
                      \/ cfg.method \notin {"POST", "PUT", "PATCH"}
         atEntry == IF l = 1 THEN "unset" ELSE stack[l - 1].skipResource
     IN  /\ f.pc = "start" => f.skipResource = atEntry
         /\ f.pc # "start" =>
               f.skipResource =
                  IF firstGate THEN atEntry
                  ELSE IF SettingsOf(cfg, l).resource = "" THEN "false"
                  ELSE "true"
         /\ (f.pc = "done" /\ f.nextErr = "" /\ f.skipResource = "true"
               /\ ~f.hasSub) => ~f.sent.sent

C18_Witness ==
  /\ cfg.method = "PUT"
  /\ stack[1].pc = "done"
  /\ stack[1].nextErr = ""
  /\ stack[1].nLoadSub = 1
  /\ stack[1].linked = ""
  /\ stack[1].skipResource = "true"
  /\ ~stack[1].sent.sent

\* C19: an invocation for a PATCH request that passed the gates calls no
\* submission loader and looks up no link; it builds a fresh child without
\* _id, merges into it, and dispatches it, if at all, to the base endpoint
\* with method PATCH and without submissionId; it never fails with ENOIDP;
\* its body's externalIds stay what they were at entry even after a child
\* save that produced an item; and when its save stage finds no handler
\* registered for (base url, patch) it calls next with ENOHANDLER.
C19_PatchCreatesButNeverLinks ==
  \A l \in 1..Len(stack) :
     LET f == stack[l]
     IN  cfg.method = "PATCH" =>
            /\ f.nLoadSub = 0
            /\ f.linked = "" /\ f.external = ""
            /\ f.hasSub => ~subm[l + 1].hasId /\ f.merged # TCut
            /\ f.sent.sent =>
                  /\ f.sent.url = BaseUrl
                  /\ f.sent.method = "PATCH"
                  /\ f.sent.subId = ""
            /\ f.nextErr # "ENOIDP"
            /\ subm[l].hasExt = f.pre.hasExt
            /\ subm[l].ext = f.pre.ext
            /\ (/\ f.pc = "done"
                /\ f.hasSub
                /\ l - 1 <= cfg.depthBound
                /\ <<BaseUrl, "patch">> \notin cfg.registry) =>
                  f.nextErr = "ENOHANDLER" /\ ~f.sent.sent /\ ~f.assigned

C19_Witness ==
  /\ cfg.method = "PATCH"
  /\ stack[1].pc = "done"
  /\ stack[1].sent.sent
  /\ stack[1].handled = "item"
  /\ stack[1].assigned
  /\ subm[1].ext = stack[1].pre.ext
  /\ Len(subm[1].ext) = 1


(***************************************************************************)
(* The installer (src/install.js).  async.series runs the six steps; the   *)
(* callback it hands to a step throws "Callback was already called." on    *)
(* a second invocation.  inst.cur is the step the series is at, inst.pc    *)
(* is "ready" while that step's synchronous part has yet to run,           *)
(* "waiting" while it waits for an asynchronous result and "over" once     *)
(* the series has called its final callback.  inst.prompts holds the       *)
(* steps whose prompt is on the screen; a prompt is answered only when no  *)
(* synchronous code is left to run.                                        *)
(***************************************************************************)
Steps ==
  <<"areYouSure", "downloadClient", "extractClient", "whatTemplate",
    "importTemplate", "createRootUser">>

\* tries++ > RetryLimit gives the download up.
RetryLimit == 3

Items == [download : BOOLEAN, extract : BOOLEAN, import : BOOLEAN,
          user : BOOLEAN]

\* The callback async.series hands to step i, called with or without an
\* error.
StepDone(s, i, err) ==
  IF s.calls[i] >= 1
    THEN [s EXCEPT !.calls[i] = @ + 1, !.thrown = TRUE]
    ELSE IF err
      THEN [s EXCEPT !.calls[i] = 1, !.pc = "over", !.doneErr = TRUE,
                     !.doneCalls = @ + 1]
      ELSE IF i = Len(Steps)
        THEN [s EXCEPT !.calls[i] = 1, !.pc = "over", !.doneCalls = @ + 1]
        ELSE [s EXCEPT !.calls[i] = 1, !.cur = i + 1, !.pc = "ready"]

Begin(s, i) == [s EXCEPT !.started = Append(@, i), !.pc = "waiting"]

Installing(rootEmail, items) ==
  [NotInstalling EXCEPT !.rootEmail = rootEmail, !.items = items,
                        !.cur = 1, !.pc = "ready"]

InstallInit ==
  /\ reqNo = 1
  /\ cfg = Unread
  /\ heap = << >>
  /\ subm = <<NoSubmission>>
  /\ stack = << >>
  /\ res = NoResource
  /\ \E rootEmail \in BOOLEAN, items \in Items :
       inst = Installing(rootEmail, items)

Served == UNCHANGED <<cfg, heap, subm, stack, res, reqNo>>

Ready(i) == inst.cur = i /\ inst.pc = "ready"

Waiting(i) == inst.cur = i /\ inst.pc = "waiting"

areYouSure ==
  /\ Ready(1)
  /\ LET b == Begin(inst, 1)
         s == IF inst.rootEmail THEN StepDone(b, 1, FALSE) ELSE b
     IN  inst' = [s EXCEPT !.prompts = @ \cup {1}]
  /\ Served

\* The callback of prompt.get.
areYouSureAnswer ==
  /\ 1 \in inst.prompts
  /\ inst.pc # "ready"
  /\ \E answer \in {"error", "n", "y"} :
       inst' = StepDone([inst EXCEPT !.prompts = @ \ {1}], 1, answer # "y")
  /\ Served

downloadClient ==
  /\ Ready(2)
  /\ \E zipExists \in BOOLEAN :
       LET b == Begin(inst, 2)
       IN  inst' = IF ~inst.items.download \/ zipExists
                     THEN StepDone(b, 2, FALSE)
                     ELSE [b EXCEPT !.tries = 0]
  /\ Served

\* One response to util.fetch.
downloadProject ==
  /\ Waiting(2)
  /\ \E headers \in BOOLEAN, downloadError \in BOOLEAN :
       LET t == [inst EXCEPT !.tries = @ + 1]
       IN  inst' = IF headers
                     THEN StepDone(inst, 2, downloadError)
                     ELSE IF inst.tries > RetryLimit
                       THEN StepDone(t, 2, TRUE)
                       ELSE t
  /\ Served

extractClient ==
  /\ Ready(3)
  /\ \E dirExists \in BOOLEAN :
       LET b == Begin(inst, 3)
       IN  inst' = IF ~inst.items.extract \/ dirExists
                     THEN StepDone(b, 3, FALSE)
                     ELSE b
  /\ Served

\* The callback of fs.move.
extract ==
  /\ Waiting(3)
  /\ \E err \in BOOLEAN : inst' = StepDone(inst, 3, err)
  /\ Served

whatTemplate ==
  /\ Ready(4)
  /\ LET b == Begin(inst, 4)
         s == IF inst.rootEmail THEN StepDone(b, 4, FALSE) ELSE b
     IN  inst' = [s EXCEPT !.prompts = @ \cup {4}]
  /\ Served

\* inquirer.prompt settles.
whatTemplateAnswer ==
  /\ 4 \in inst.prompts
  /\ inst.pc # "ready"
  /\ \E answer \in {"rejected", "missing", "found"} :
       inst' = StepDone([inst EXCEPT !.prompts = @ \ {4}], 4,
                        answer # "found")
  /\ Served

importTemplate ==
  /\ Ready(5)
  /\ \E broken \in BOOLEAN :
       LET b == Begin(inst, 5)
       IN  inst' = IF ~inst.items.import
                     THEN StepDone(b, 5, FALSE)
                     ELSE IF broken THEN StepDone(b, 5, TRUE) ELSE b
  /\ Served

\* The callback of importer.template.
importerDone ==
  /\ Waiting(5)
  /\ \E err \in BOOLEAN : inst' = StepDone(inst, 5, err)
  /\ Served

createRootUser ==
  /\ Ready(6)
  /\ LET b == Begin(inst, 6)
     IN  inst' = IF ~inst.items.user THEN StepDone(b, 6, FALSE) ELSE b
  /\ Served

\* The prompt, the encryption and the creation of the account have settled.
rootUserCreated ==
  /\ Waiting(6)
  /\ \E err \in BOOLEAN : inst' = StepDone(inst, 6, err)
  /\ Served

InstallNext ==
  \/ areYouSure
  \/ areYouSureAnswer
  \/ downloadClient
  \/ downloadProject
  \/ extractClient
  \/ extract
  \/ whatTemplate
  \/ whatTemplateAnswer
  \/ importTemplate
  \/ importerDone
  \/ createRootUser
  \/ rootUserCreated

InstallSpec == InstallInit /\ [][InstallNext]_vars

\* C20: the steps run strictly in the order of Steps, every step that
\* has run has called its completion callback at most once and every
\* finished step exactly once (with ROOT_EMAIL set too), no step starts
\* after a step has failed, the installer's done callback is called at most
\* once and exactly once when the series is over, and the download helper
\* makes a bounded number of attempts.
C20_InstallerStepsOnce ==
  /\ inst.started = [k \in 1..Len(inst.started) |-> k]
  /\ \A i \in 1..Len(Steps) : inst.calls[i] <= 1
  /\ Len(inst.started) = IF inst.pc = "ready" THEN inst.cur - 1 ELSE inst.cur
  /\ \A i \in 1..Len(Steps) :
       i < inst.cur \/ (i = inst.cur /\ inst.pc = "over")
         => inst.calls[i] = 1
  /\ inst.doneErr => inst.pc = "over"
  /\ inst.pc = "over" <=> inst.doneCalls = 1
  /\ inst.doneCalls <= 1
  /\ ~inst.thrown
  /\ inst.tries <= RetryLimit + 2

\* The same with ROOT_EMAIL unset in the environment.
C20_PromptedInstallerStepsOnce == inst.rootEmail \/ C20_InstallerStepsOnce

=============================================================================
